---- MODULE Spec2Model ----
(***************************************************************************)
(* A model of app.py of ponpokopon3/bendermapping: the markdown parsing    *)
(* (parse_content), table extraction (md_table_to_records), item           *)
(* extraction (extract_items), the rendering dispatch (render_value) and   *)
(* the domain aggregation loop of show_mapping_page.                       *)
(*                                                                         *)
(* A Python str is a sequence of characters.  A character is a TLA+ string *)
(* of length one, except for the literals the code searches for as a       *)
(* whole, which are single symbols: "PartnerName" is the heading label of  *)
(* line 41, "RelationLevel" and "Renkei" are the section titles of lines   *)
(* 292-293, "<fence>mermaid" and "<fence>" are the code fences of lines    *)
(* 147-161 and "graph" is a diagram keyword of line 150.                   *)
(***************************************************************************)
EXTENDS Integers, Sequences, FiniteSets, TLC

VARIABLES
    pc,           \* where the running call stands
    text,         \* the str argument of the function under call
    compact,      \* render_value's compact argument
    ret,          \* what the call returned (for render_value: what it drew)
    master_list,  \* show_mapping_page: the master domain list
    files,        \* show_mapping_page: the batch of files, in order
    idx,          \* show_mapping_page: the file the loop of line 285 is at
    mapping,      \* show_mapping_page: the dict of line 283
    others        \* show_mapping_page: the list of line 284

vars == <<pc, text, compact, ret, master_list, files, idx, mapping, others>>

(***************************************************************************)
(* Python str primitives                                                   *)
(***************************************************************************)
NL == "\n"
TAB == "\t"

\* the characters str.strip() removes and the regex class \s matches
Whitespace == {" ", NL, TAB}

IsSpace(c) == c \in Whitespace

Range(s) == {s[i] : i \in 1..Len(s)}

\* s[a:b] with 1-based inclusive bounds; empty when b < a
Slice(s, a, b) == IF b < a THEN <<>> ELSE SubSeq(s, a, b)

\* str.lstrip(chars)
LStripSet(s, chars) ==
    IF \A i \in 1..Len(s) : s[i] \in chars THEN <<>>
    ELSE LET k == CHOOSE i \in 1..Len(s) :
                     s[i] \notin chars /\ \A j \in 1..(i - 1) : s[j] \in chars
         IN Slice(s, k, Len(s))

\* str.rstrip(chars)
RStripSet(s, chars) ==
    IF \A i \in 1..Len(s) : s[i] \in chars THEN <<>>
    ELSE LET k == CHOOSE i \in 1..Len(s) :
                     s[i] \notin chars /\ \A j \in (i + 1)..Len(s) : s[j] \in chars
         IN Slice(s, 1, k)

\* str.strip()
Strip(s) == RStripSet(LStripSet(s, Whitespace), Whitespace)

\* str.split(c): always at least one piece
RECURSIVE SplitOn(_, _)
SplitOn(s, c) ==
    IF \A i \in 1..Len(s) : s[i] # c THEN <<s>>
    ELSE LET k == CHOOSE i \in 1..Len(s) :
                     s[i] = c /\ \A j \in 1..(i - 1) : s[j] # c
         IN <<Slice(s, 1, k - 1)>> \o SplitOn(Slice(s, k + 1, Len(s)), c)

\* str.splitlines(): the pieces between line breaks, without a last empty piece
SplitLines(s) ==
    LET ps == SplitOn(s, NL)
    IN IF ps[Len(ps)] = <<>> THEN Slice(ps, 1, Len(ps) - 1) ELSE ps

\* "\n".join(ls)
RECURSIVE JoinLines(_)
JoinLines(ls) ==
    IF Len(ls) = 0 THEN <<>>
    ELSE IF Len(ls) = 1 THEN ls[1]
    ELSE ls[1] \o <<NL>> \o JoinLines(Tail(ls))

\* [ln.strip() for ln in s.splitlines() if ln.strip()]
RECURSIVE StripNonBlank(_)
StripNonBlank(ls) ==
    IF ls = <<>> THEN <<>>
    ELSE IF Strip(ls[1]) = <<>> THEN StripNonBlank(Tail(ls))
    ELSE <<Strip(ls[1])>> \o StripNonBlank(Tail(ls))

NonBlankLines(s) == StripNonBlank(SplitLines(s))

(***************************************************************************)
(* Regex primitives (module re, flag (?m)).  A position is 1-based; an end *)
(* is the position after the last matched character.                       *)
(***************************************************************************)
\* ^ : at the start of the text or right after a line break
LineStart(s, p) == p = 1 \/ (p - 1 <= Len(s) /\ s[p - 1] = NL)

\* greedy \s* from p: the first position at or after p that holds no whitespace
SkipSpace(s, p) ==
    IF \A i \in p..Len(s) : IsSpace(s[i]) THEN Len(s) + 1
    ELSE CHOOSE i \in p..Len(s) :
             ~IsSpace(s[i]) /\ \A j \in p..(i - 1) : IsSpace(s[j])

\* greedy .* from p: the position of the next line break, or the end
EndOfLine(s, p) ==
    IF \A i \in p..Len(s) : s[i] # NL THEN Len(s) + 1
    ELSE CHOOSE i \in p..Len(s) :
             s[i] = NL /\ \A j \in p..(i - 1) : s[j] # NL

\* \s*$ from p: the end of the longest run of whitespace from p that stops at
\* the end of the text or before a line break; 0 when there is none
DollarEnd(s, p) ==
    LET w == SkipSpace(s, p)
        brk == {i \in p..(w - 1) : s[i] = NL}
    IN IF w = Len(s) + 1 THEN w
       ELSE IF brk = {} THEN 0
       ELSE CHOOSE i \in brk : \A j \in brk : j <= i

(***************************************************************************)
(* parse_content                                                           *)
(***************************************************************************)
PartnerHeading == "PartnerName"

\* r"(?m)^#\s*パートナー名\s*$" matched at p: the end of the match, 0 if none
MatchPartnerHeading(s, p) ==
    IF ~(p <= Len(s) /\ LineStart(s, p) /\ s[p] = "#") THEN 0
    ELSE LET w == SkipSpace(s, p + 1)
         IN IF w <= Len(s) /\ s[w] = PartnerHeading
            THEN DollarEnd(s, w + 1)
            ELSE 0

\* Optional values: None, or Some(v)
None == [some |-> FALSE, v |-> <<>>]

Some(x) == [some |-> TRUE, v |-> x]

\* lines 40-47
ParsePartnerName(s) ==
    LET hits == {p \in 1..Len(s) : MatchPartnerHeading(s, p) # 0}
    IN IF hits = {} THEN None
       ELSE LET p == CHOOSE i \in hits : \A j \in hits : i <= j
                rest == Slice(s, MatchPartnerHeading(s, p), Len(s))
                ls == NonBlankLines(rest)
            IN IF ls = <<>> THEN None ELSE Some(ls[1])

\* r"(?m)^##\s*(.+)\s*$" matched at p: [start, end, group] or NoMatch
NoMatch == [start |-> 0, end |-> 0, group |-> <<>>]

MatchSectionHeading(s, p) ==
    IF ~(p + 1 <= Len(s) /\ LineStart(s, p) /\ s[p] = "#" /\ s[p + 1] = "#")
    THEN NoMatch
    ELSE LET w == SkipSpace(s, p + 2)
         IN IF w <= Len(s)
            THEN \* \s* runs over blanks and line breaks up to the next text
                 LET e == EndOfLine(s, w)
                 IN [start |-> p, end |-> DollarEnd(s, e),
                     group |-> Slice(s, w, e - 1)]
            ELSE \* only whitespace follows: \s* gives back up to a blank
                 \* that is no line break, which (.+) then takes
                 LET back == {i \in (p + 2)..Len(s) : s[i] # NL}
                 IN IF back = {} THEN NoMatch
                    ELSE LET b == CHOOSE i \in back : \A j \in back : j <= i
                         IN [start |-> p, end |-> Len(s) + 1,
                             group |-> Slice(s, b, EndOfLine(s, b) - 1)]

\* re.finditer from position pos
RECURSIVE FindHeadings(_, _)
FindHeadings(s, pos) ==
    LET hits == {p \in pos..Len(s) : MatchSectionHeading(s, p) # NoMatch}
    IN IF hits = {} THEN <<>>
       ELSE LET p == CHOOSE i \in hits : \A j \in hits : i <= j
                m == MatchSectionHeading(s, p)
            IN <<m>> \o FindHeadings(s, m.end)

\* a Python dict: the keys in insertion order and the value of each key
EmptyDict == [keys |-> <<>>, val |-> <<>>]

DictHas(d, k) == \E i \in 1..Len(d.keys) : d.keys[i] = k

DictGet(d, k, default) ==
    IF DictHas(d, k)
    THEN d.val[CHOOSE i \in 1..Len(d.keys) : d.keys[i] = k]
    ELSE default

\* d[k] = v: a key already there keeps its place
DictSet(d, k, v) ==
    IF DictHas(d, k)
    THEN LET i == CHOOSE j \in 1..Len(d.keys) : d.keys[j] = k
         IN [d EXCEPT !.val[i] = v]
    ELSE [keys |-> Append(d.keys, k), val |-> Append(d.val, v)]

\* lines 49-55
RECURSIVE FillSections(_, _, _, _)
FillSections(s, matches, n, sections) ==
    IF n > Len(matches) THEN sections
    ELSE LET mm == matches[n]
             title == Strip(mm.group)
             end == IF n + 1 <= Len(matches)
                    THEN matches[n + 1].start ELSE Len(s) + 1
         IN FillSections(s, matches, n + 1,
                DictSet(sections, title, Strip(Slice(s, mm.end, end - 1))))

ParseSections(s) == FillSections(s, FindHeadings(s, 1), 1, EmptyDict)

parse_content(s) == [partner_name |-> ParsePartnerName(s), sections |-> ParseSections(s)]

(***************************************************************************)
(* is_markdown_table, md_table_to_records                                  *)
(***************************************************************************)
\* the class [-: \t|] of line 62
TableRuleChars == {"-", ":", " ", TAB, "|"}

\* the class [-: ] of line 71
DashChars == {"-", ":", " "}

\* r"(?m)^\s*\|.*\n\s*\|[-: \t|]+\n" found somewhere in s (line 62)
is_markdown_table(s) ==
    \E p \in 1..Len(s) :
        /\ LineStart(s, p)
        /\ LET q == SkipSpace(s, p)
           IN /\ q <= Len(s) /\ s[q] = "|"
              /\ LET r == EndOfLine(s, q + 1)
                 IN /\ r <= Len(s)
                    /\ LET t == SkipSpace(s, r + 1)
                       IN /\ t <= Len(s) /\ s[t] = "|"
                          /\ LET u == EndOfLine(s, t + 1)
                             IN /\ u <= Len(s)
                                /\ u >= t + 2
                                /\ \A i \in (t + 1)..(u - 1) : s[i] \in TableRuleChars

\* \s*[-: ]+\s* over a whole cell
IsDashCell(c) ==
    \E i \in 1..Len(c) : \E j \in i..Len(c) :
        /\ \A k \in i..j : c[k] \in DashChars
        /\ \A k \in 1..(i - 1) : IsSpace(c[k])
        /\ \A k \in (j + 1)..Len(c) : IsSpace(c[k])

\* r"^\s*\|?\s*[-: ]+\s*(\|\s*[-: ]+\s*)+\|?$" matched on a line (line 71)
IsSeparatorLine(ln) ==
    LET ps == SplitOn(ln, "|")
        n == Len(ps)
    IN \E lead \in {0, 1} : \E trail \in {0, 1} :
        /\ lead = 1 => n >= 2 /\ \A k \in 1..Len(ps[1]) : IsSpace(ps[1][k])
        /\ trail = 1 => n >= 2 /\ ps[n] = <<>>
        /\ n - lead - trail >= 2
        /\ \A k \in (1 + lead)..(n - trail) : IsDashCell(ps[k])

HasPipe(ln) == \E i \in 1..Len(ln) : ln[i] = "|"

\* lines 77-83
split_row(row) ==
    LET r0 == Strip(row)
        r1 == IF Len(r0) > 0 /\ r0[1] = "|" THEN Tail(r0) ELSE r0
        r2 == IF Len(r1) > 0 /\ r1[Len(r1)] = "|" THEN Slice(r1, 1, Len(r1) - 1) ELSE r1
        cs == SplitOn(r2, "|")
    IN [i \in 1..Len(cs) |-> Strip(cs[i])]

\* a bug: short rows are not padded
PadColsForgotten(cols, n) == cols

\* lines 92-93
PadCols(cols, n) ==
    IF Len(cols) < n THEN cols \o [i \in 1..(n - Len(cols)) |-> <<>>] ELSE cols

\* dict(zip(headers, cols)) of line 94
RECURSIVE ZipDict(_, _, _, _)
ZipDict(headers, cols, i, d) ==
    IF i > Len(headers) \/ i > Len(cols) THEN d
    ELSE ZipDict(headers, cols, i + 1, DictSet(d, headers[i], cols[i]))

MakeRecord(headers, cols) == ZipDict(headers, PadCols(cols, Len(headers)), 1, EmptyDict)

\* lines 88-94
RECURSIVE DataRecords(_, _)
DataRecords(headers, data_lines) ==
    IF data_lines = <<>> THEN <<>>
    ELSE IF ~HasPipe(data_lines[1]) THEN DataRecords(headers, Tail(data_lines))
    ELSE <<MakeRecord(headers, split_row(data_lines[1]))>>
             \o DataRecords(headers, Tail(data_lines))

\* lines 69-73: the header's index, 0 when there is none
HeaderIdx(lines) ==
    LET hits == {i \in 1..(Len(lines) - 1) :
                     HasPipe(lines[i]) /\ IsSeparatorLine(lines[i + 1])}
    IN IF hits = {} THEN 0 ELSE CHOOSE i \in hits : \A j \in hits : i <= j

\* lines 65-95
md_table_to_records(s) ==
    LET lines == NonBlankLines(s)
        header_idx == HeaderIdx(lines)
    IN IF header_idx = 0 THEN None
       ELSE Some(DataRecords(split_row(lines[header_idx]),
                             Slice(lines, header_idx + 2, Len(lines))))

(***************************************************************************)
(* extract_items                                                           *)
(***************************************************************************)
BulletChars == {"*", "-"}

\* line 133
StartsWithBullet(ln) == Len(ln) > 0 /\ ln[1] \in BulletChars

\* [p.strip() for p in ln.split(",") if p.strip()] of line 137
CommaPieces(ln) == StripNonBlank(SplitOn(ln, ","))

\* a bug: a bullet line is split on its commas too
LineItemsSplittingBullets(ln) ==
    IF StartsWithBullet(ln)
    THEN CommaPieces(Strip(LStripSet(ln, {"*", "-", " "})))
    ELSE IF \E i \in 1..Len(ln) : ln[i] = ","
    THEN CommaPieces(ln)
    ELSE <<ln>>

\* lines 133-139: the items one stripped line adds
LineItems(ln) ==
    IF StartsWithBullet(ln)
    THEN <<Strip(LStripSet(ln, {"*", "-", " "}))>>
    ELSE IF \E i \in 1..Len(ln) : ln[i] = ","
    THEN CommaPieces(ln)
    ELSE <<ln>>

\* lines 131-140
RECURSIVE CollectItems(_, _)
CollectItems(lines, items) ==
    IF lines = <<>> THEN items
    ELSE CollectItems(Tail(lines), items \o LineItems(lines[1]))

\* lines 123-140
extract_items(s) ==
    IF s = <<>> THEN <<>> ELSE CollectItems(NonBlankLines(s), <<>>)

(***************************************************************************)
(* is_mermaid, extract_mermaid_source, render_value                        *)
(***************************************************************************)
FenceMermaid == "<fence>mermaid"
Fence == "<fence>"

\* line 150
MermaidKeywords == {"graph", "sequenceDiagram", "flowchart", "classDiagram", "stateDiagram"}

\* lines 143-151
is_mermaid(txt) ==
    IF txt = <<>> THEN FALSE
    ELSE IF FenceMermaid \in Range(txt) THEN TRUE
    ELSE LET ls == SplitLines(Strip(txt))
             first == IF ls # <<>> THEN ls[1] ELSE <<>>
         IN Len(first) > 0 /\ first[1] \in MermaidKeywords

\* lines 154-163
extract_mermaid_source(txt) ==
    IF FenceMermaid \in Range(txt)
    THEN LET body == SplitOn(txt, FenceMermaid)[2]
         IN IF Fence \in Range(body) THEN Strip(SplitOn(body, Fence)[1]) ELSE Strip(body)
    ELSE Strip(txt)

\* [ln for ln in value.splitlines() if ln.strip()] of line 212
RECURSIVE KeepNonBlank(_)
KeepNonBlank(ls) ==
    IF ls = <<>> THEN <<>>
    ELSE IF Strip(ls[1]) = <<>> THEN KeepNonBlank(Tail(ls))
    ELSE <<ls[1]>> \o KeepNonBlank(Tail(ls))

\* line 213
AllBullets(lines) ==
    lines # <<>> /\ \A i \in 1..Len(lines) : StartsWithBullet(Strip(lines[i]))

\* "、".join(items) of lines 214-218
JoinSep == "<sep>"

RECURSIVE JoinItems(_)
JoinItems(its) ==
    IF Len(its) = 0 THEN <<>>
    ELSE IF Len(its) = 1 THEN its[1]
    ELSE its[1] \o <<JoinSep>> \o JoinItems(Tail(its))

Call(fn, arg) == [fn |-> fn, arg |-> arg]

Heading(cpt) == IF cpt THEN "st.write" ELSE "st.subheader"

\* lines 183-190: the Mermaid branch; html_ok: render_mermaid_html does not raise
RenderMermaid(value, html_ok) ==
    [branch |-> "mermaid",
     calls |-> <<Call(IF html_ok THEN "components.html" ELSE "st.code",
                      extract_mermaid_source(value))>>]

\* lines 192-197
RenderEmpty(cpt) == [branch |-> "empty", calls |-> <<Call(Heading(cpt), <<"-">>)>>]

\* lines 199-210: taken when the records are a non-empty list;
\* pandas_ok: the DataFrame display does not raise
TableTaken(value) ==
    /\ is_markdown_table(value)
    /\ LET records == md_table_to_records(value)
       IN records.some /\ records.v # <<>>

RenderTable(value, pandas_ok) ==
    [branch |-> "table",
     calls |-> <<Call(IF pandas_ok THEN "st.dataframe" ELSE "st.table",
                      md_table_to_records(value).v)>>]

\* lines 214-219
RenderBullets(lines, cpt) ==
    [branch |-> "bullets",
     calls |-> <<Call(Heading(cpt),
                      JoinItems([i \in 1..Len(lines) |->
                                    Strip(LStripSet(lines[i], {"*", "-", " "}))]))>>]

\* lines 221-230
RenderText(value, lines, cpt) ==
    LET first == IF lines # <<>> THEN lines[1] ELSE value
        rest == JoinLines(IF lines # <<>> THEN Tail(lines) ELSE <<>>)
    IN [branch |-> "text",
        calls |-> <<Call(Heading(cpt), first)>>
                    \o (IF rest # <<>> THEN <<Call("st.write", rest)>> ELSE <<>>)]

\* a bug: the table check comes before the Mermaid check
render_value_TableFirst(value, cpt, html_ok, pandas_ok) ==
    IF value # <<>> /\ TableTaken(value) THEN RenderTable(value, pandas_ok)
    ELSE IF is_mermaid(value) THEN RenderMermaid(value, html_ok)
    ELSE IF value = <<>> THEN RenderEmpty(cpt)
    ELSE LET lines == KeepNonBlank(SplitLines(value))
         IN IF AllBullets(lines) THEN RenderBullets(lines, cpt)
            ELSE RenderText(value, lines, cpt)

\* lines 177-230
render_value(value, cpt, html_ok, pandas_ok) ==
    IF is_mermaid(value) THEN RenderMermaid(value, html_ok)
    ELSE IF value = <<>> THEN RenderEmpty(cpt)
    ELSE IF TableTaken(value) THEN RenderTable(value, pandas_ok)
    ELSE LET lines == KeepNonBlank(SplitLines(value))
         IN IF AllBullets(lines) THEN RenderBullets(lines, cpt)
            ELSE RenderText(value, lines, cpt)

(***************************************************************************)
(* show_mapping_page, lines 283-302                                        *)
(***************************************************************************)
RelationLevelTitle == <<"RelationLevel">>
RenkeiTitle == <<"Renkei">>

\* "(名前不明)" of line 291
UnknownName == <<"UnknownName">>

\* line 283: {m: [] for m in master_list}
RECURSIVE EmptyLists(_, _)
EmptyLists(ms, d) ==
    IF ms = <<>> THEN d ELSE EmptyLists(Tail(ms), DictSet(d, ms[1], <<>>))

\* lines 291-295
MakeLabel(pname, secs) ==
    LET name == IF pname.some /\ pname.v # <<>> THEN pname.v ELSE UnknownName
        rlevel == DictGet(secs, RelationLevelTitle, <<"-">>)
    IN name \o <<"(">> \o rlevel \o <<")">>

\* a bug: the loop over the items stops at the first match
RECURSIVE AppendFirstMatchOnly(_, _, _, _, _)
AppendFirstMatchOnly(items, i, master, entry, acc) ==
    IF i > Len(items) THEN acc
    ELSE IF items[i] \in Range(master)
    THEN [mapping |-> DictSet(acc.mapping, items[i],
                              Append(DictGet(acc.mapping, items[i], <<>>), entry)),
          matched |-> TRUE]
    ELSE AppendFirstMatchOnly(items, i + 1, master, entry, acc)

\* lines 297-300: [mapping, matched] after the items from position i on
RECURSIVE AppendMatches(_, _, _, _, _)
AppendMatches(items, i, master, entry, acc) ==
    IF i > Len(items) THEN acc
    ELSE IF items[i] \in Range(master)
    THEN AppendMatches(items, i + 1, master, entry,
             [mapping |-> DictSet(acc.mapping, items[i],
                                  Append(DictGet(acc.mapping, items[i], <<>>), entry)),
              matched |-> TRUE])
    ELSE AppendMatches(items, i + 1, master, entry, acc)

\* a bug: `matched` is not looked at
AppendOtherAlways(oth, matched, entry) == Append(oth, entry)

\* lines 301-302
AppendOther(oth, matched, entry) ==
    IF ~matched THEN Append(oth, entry) ELSE oth

\* a bug: a file that cannot be read is listed as a document without text
OnReadErrorListed(st, fname) ==
    [st EXCEPT !.others = Append(@, <<UnknownName \o <<"(", "-", ")">>, fname>>)]

\* lines 288-289: the except branch, continue
OnReadError(st, fname) == st

\* lines 290-302: one readable file; st is [mapping, others]
OnReadable(st, fname, txt, master) ==
    LET parsed == parse_content(txt)
        renkei_txt == DictGet(parsed.sections, RenkeiTitle, <<>>)
        items == extract_items(renkei_txt)
        entry == <<MakeLabel(parsed.partner_name, parsed.sections), fname>>
        acc == AppendMatches(items, 1, master, entry,
                             [mapping |-> st.mapping, matched |-> FALSE])
    IN [mapping |-> acc.mapping, others |-> AppendOther(st.others, acc.matched, entry)]

\* lines 285-302: one turn of the loop; a file is [name, content], and
\* content is None when load_text raises
LoopBody(st, f, master) ==
    IF ~f.content.some THEN OnReadError(st, f.name)
    ELSE OnReadable(st, f.name, f.content.v, master)

\* lines 283-302 run over a whole batch
RECURSIVE RunLoop(_, _, _)
RunLoop(st, fs, master) ==
    IF fs = <<>> THEN st ELSE RunLoop(LoopBody(st, fs[1], master), Tail(fs), master)

RunBatch(fs, master) ==
    RunLoop([mapping |-> EmptyLists(master, EmptyDict), others |-> <<>>], fs, master)

(***************************************************************************)
(* Inputs                                                                  *)
(***************************************************************************)
SeqsUpTo(S, n) == UNION {[1..k -> S] : k \in 0..n}

\* the texts made of at most n lines of the set ls
TextsOf(ls, n) == {JoinLines(q) : q \in SeqsUpTo(ls, n)}

Idle == <<>>

\* no call of show_mapping_page is running
NoBatch ==
    /\ master_list = <<>>
    /\ files = <<>>
    /\ idx = 0
    /\ mapping = EmptyDict
    /\ others = <<>>

batchVars == <<master_list, files, idx, mapping, others>>

(***************************************************************************)
(* Specification of show_mapping_page's aggregation over a batch of files  *)
(***************************************************************************)
MaxFiles == 2
MaxMaster == 2

\* two master domains ("s", "o") and a domain that is in no master list ("z")
DomainNames == {<<"s">>, <<"o">>}

NamePart ==
    << <<>>, <<"#", " ", "PartnerName", NL, "x", NL>> >>

LevelPart ==
    << <<>>,
       <<"#", "#", " ", "RelationLevel", NL>>,
       <<"#", "#", " ", "RelationLevel", NL, "A", NL>> >>

RenkeiPart ==
    << <<>>,
       <<"#", "#", " ", "Renkei", NL, "*", " ", "s", NL, "*", " ", "o", NL>>,
       <<"#", "#", " ", "Renkei", NL, "s", ",", " ", "z", NL>>,
       <<"#", "#", " ", "Renkei", NL, "z", NL>>,
       <<"#", "#", " ", "Renkei", NL, "-", " ", "s", NL, "-", " ", "s", NL>> >>

\* which name, relation level and 連係領域 parts the documents of the batch have
DocShapes ==
    { <<1, 1, 1>>, <<2, 3, 2>>, <<2, 3, 3>>, <<2, 1, 4>>,
      <<2, 3, 5>>, <<2, 2, 2>>, <<1, 3, 3>>, <<2, 2, 4>> }

DocTexts == {NamePart[d[1]] \o LevelPart[d[2]] \o RenkeiPart[d[3]] : d \in DocShapes}

\* what load_text gives for a file: its text, or None when it raises
Contents == {None} \cup {Some(t) : t \in DocTexts}

\* files of one directory: their names are distinct (the name is the position)
Batches ==
    UNION {{[i \in 1..k |-> [name |-> i, content |-> cs[i]]] : cs \in [1..k -> Contents]}
               : k \in 0..MaxFiles}

InitMapping ==
    /\ pc = "start"
    /\ text = <<>>
    /\ compact = FALSE
    /\ ret = Idle
    /\ master_list \in SeqsUpTo(DomainNames, MaxMaster)
    /\ files \in Batches
    /\ idx = 0
    /\ mapping = EmptyDict
    /\ others = <<>>

\* lines 283-284
Setup ==
    /\ pc = "start"
    /\ mapping' = EmptyLists(master_list, EmptyDict)
    /\ others' = <<>>
    /\ idx' = 1
    /\ pc' = "loop"
    /\ UNCHANGED <<text, compact, ret, master_list, files>>

\* lines 286-289: load_text raises
SkipUnreadable ==
    /\ pc = "loop"
    /\ idx <= Len(files)
    /\ ~files[idx].content.some
    /\ LET st == OnReadError([mapping |-> mapping, others |-> others], files[idx].name)
       IN mapping' = st.mapping /\ others' = st.others
    /\ idx' = idx + 1
    /\ UNCHANGED <<pc, text, compact, ret, master_list, files>>

\* lines 286-302: load_text returns
ProcessFile ==
    /\ pc = "loop"
    /\ idx <= Len(files)
    /\ files[idx].content.some
    /\ LET st == OnReadable([mapping |-> mapping, others |-> others],
                            files[idx].name, files[idx].content.v, master_list)
       IN mapping' = st.mapping /\ others' = st.others
    /\ idx' = idx + 1
    /\ UNCHANGED <<pc, text, compact, ret, master_list, files>>

\* the loop of line 285 is over
Finish ==
    /\ pc = "loop"
    /\ idx > Len(files)
    /\ pc' = "done"
    /\ UNCHANGED <<text, compact, ret, master_list, files, idx, mapping, others>>

NextMapping == Setup \/ SkipUnreadable \/ ProcessFile \/ Finish

SpecMapping == InitMapping /\ [][NextMapping]_vars

\* the files the loop has been through
Processed == IF pc = "start" THEN {} ELSE 1..(idx - 1)

Readable(i) == files[i].content.some

\* what parse_content makes of each text a file may hold
ParsedTexts == [t \in DocTexts |-> parse_content(t)]

DocParsed(i) == ParsedTexts[files[i].content.v]

\* the items extracted from the 連係領域 section of each text
ItemsOfTexts ==
    [t \in DocTexts |-> extract_items(DictGet(ParsedTexts[t].sections, RenkeiTitle, <<>>))]

\* the items extracted from the 連係領域 section of file i
DocItems(i) == ItemsOfTexts[files[i].content.v]

DocMatched(i) == \E k \in 1..Len(DocItems(i)) : DocItems(i)[k] \in Range(master_list)

\* how many entries of a list are of the file named n
CountIn(list, n) == Cardinality({k \in 1..Len(list) : list[k][2] = n})

InSomeDomain(n) == \E k \in 1..Len(mapping.val) : CountIn(mapping.val[k], n) > 0

\* C1: a file that was read is once in `others` when none of its items is a
\* master domain (also when it has no item), and not in `others` when one is;
\* so it is in `others` or in a domain list, never in both, never in neither.
C1_UncategorizedIffNoMatch ==
    \A i \in Processed :
        Readable(i) =>
            /\ CountIn(others, i) = (IF DocMatched(i) THEN 0 ELSE 1)
            /\ InSomeDomain(i) <=> DocMatched(i)
            /\ InSomeDomain(i) <=> CountIn(others, i) = 0

C1_Witness ==
    /\ pc = "done"
    /\ \E i, j \in 1..Len(files) :
        /\ Readable(i) /\ Readable(j)
        /\ DocMatched(i) /\ ~DocMatched(j) /\ DocItems(j) # <<>>
        /\ InSomeDomain(i) /\ CountIn(others, j) = 1

\* the entries the walk over files i..n appends for domain m
RECURSIVE ItemEntries(_, _, _, _)
ItemEntries(items, k, m, entry) ==
    IF k > Len(items) THEN <<>>
    ELSE (IF items[k] = m THEN <<entry>> ELSE <<>>) \o ItemEntries(items, k + 1, m, entry)

RECURSIVE WalkEntries(_, _, _)
WalkEntries(m, i, n) ==
    IF i > n THEN <<>>
    ELSE (IF Readable(i)
          THEN ItemEntries(DocItems(i), 1, m,
                   <<MakeLabel(DocParsed(i).partner_name, DocParsed(i).sections),
                     files[i].name>>)
          ELSE <<>>) \o WalkEntries(m, i + 1, n)

\* C2: the index has a list for every master domain and no other key, and the
\* list of m is the walk over the readable files in order, with one entry for
\* each extracted item that equals m.
C2_DomainListsAreTheWalk ==
    pc \in {"loop", "done"} =>
        /\ Range(mapping.keys) = Range(master_list)
        /\ Cardinality(Range(mapping.keys)) = Len(mapping.keys)
        /\ \A m \in Range(master_list) :
               DictGet(mapping, m, <<>>) = WalkEntries(m, 1, idx - 1)

C2_Witness ==
    /\ pc = "done"
    /\ \E m, n \in Range(master_list) :
        /\ m # n
        /\ Len(DictGet(mapping, m, <<>>)) >= 2
        /\ DictGet(mapping, m, <<>>)[1][2] < DictGet(mapping, m, <<>>)[2][2]
        /\ CountIn(DictGet(mapping, n, <<>>), DictGet(mapping, m, <<>>)[1][2]) > 0

ReadableFiles == SelectSeq(files, LAMBDA f : f.content.some)

\* C3: a file whose read fails is in no domain list and not in `others`, and
\* the outcome of the batch is that of the batch without the failing files.
C3_UnreadableSkipped ==
    pc = "done" =>
        /\ \A i \in 1..Len(files) :
               ~Readable(i) => CountIn(others, i) = 0 /\ ~InSomeDomain(i)
        /\ [mapping |-> mapping, others |-> others] = RunBatch(ReadableFiles, master_list)

C3_Witness ==
    /\ pc = "done"
    /\ \E i, j \in 1..Len(files) :
        /\ i < j /\ ~Readable(i) /\ Readable(j)
        /\ InSomeDomain(j)

\* the label C4 states: "-" when the section is missing or its body is empty
ClaimedLabel(i) ==
    LET p == DocParsed(i)
        body == DictGet(p.sections, RelationLevelTitle, <<>>)
    IN (IF p.partner_name.some THEN p.partner_name.v ELSE UnknownName)
           \o <<"(">> \o (IF body # <<>> THEN body ELSE <<"-">>) \o <<")">>

AllEntries ==
    UNION {Range(mapping.val[k]) : k \in 1..Len(mapping.val)} \cup Range(others)

\* C4: the label of every entry is "{name}({relationLevel})", the name being
\* the partner name or the unknown-name placeholder, the relation level the
\* body of the リレーションレベル section, or "-" when that section is missing
\* or its body is empty.
C4_LabelAsClaimed == \A e \in AllEntries : e[1] = ClaimedLabel(e[2])

(***************************************************************************)
(* Specification of parse_content over bounded documents                   *)
(***************************************************************************)
MaxParseLines == 4

ParseLineSet ==
    { <<>>, <<" ">>, <<"a">>, <<"b">>,
      <<"#">>, <<"#", " ", "PartnerName">>, <<"PartnerName">>,
      <<"#", "#">>, <<"#", "#", " ">>, <<"#", "#", " ", "a">>, <<"#", "#", "b", " ">> }

InitParse ==
    /\ pc = "call"
    /\ text \in TextsOf(ParseLineSet, MaxParseLines)
    /\ compact = FALSE
    /\ ret = Idle
    /\ NoBatch

CallParse ==
    /\ pc = "call"
    /\ ret' = parse_content(text)
    /\ pc' = "done"
    /\ UNCHANGED <<text, compact>>
    /\ UNCHANGED batchVars

NextParse == CallParse

SpecParse == InitParse /\ [][NextParse]_vars

\* the physical lines of a text
PhysicalLines(s) == SplitOn(s, NL)

\* a line `## <title>`: it starts with ## and a title follows on the line
IsSectionLine(l) ==
    Len(l) >= 2 /\ l[1] = "#" /\ l[2] = "#" /\ Strip(Slice(l, 3, Len(l))) # <<>>

SectionTitle(l) == Strip(Slice(l, 3, Len(l)))

SectionLines(ls) == {i \in 1..Len(ls) : IsSectionLine(ls[i])}

\* the trimmed text between heading line h and the next heading line
BodyAfter(ls, h) ==
    LET later == {i \in SectionLines(ls) : i > h}
        stop == IF later = {} THEN Len(ls) + 1
                ELSE CHOOSE i \in later : \A j \in later : i <= j
    IN Strip(JoinLines(Slice(ls, h + 1, stop - 1)))

FirstLineOf(ls, t) ==
    CHOOSE i \in SectionLines(ls) :
        SectionTitle(ls[i]) = t
        /\ \A j \in SectionLines(ls) : SectionTitle(ls[j]) = t => i <= j

LastLineOf(ls, t) ==
    CHOOSE i \in SectionLines(ls) :
        SectionTitle(ls[i]) = t
        /\ \A j \in SectionLines(ls) : SectionTitle(ls[j]) = t => j <= i

\* C5: the sections have one key for each distinct title of a `## <title>` line
\* (a whole physical line), the value of a key is the trimmed text between the
\* last heading line of that title and the next heading line (or the end), and
\* the keys are in the order of the first heading line of each title.  (A key
\* for a heading without a title is left out of the comparison.)
C5_SectionsByLine ==
    pc = "done" =>
        LET ls == PhysicalLines(text)
            d == ret.sections
            titled == SelectSeq(d.keys, LAMBDA k : k # <<>>)
        IN /\ Range(titled) = {SectionTitle(ls[i]) : i \in SectionLines(ls)}
           /\ \A k \in Range(titled) :
                  DictGet(d, k, <<>>) = BodyAfter(ls, LastLineOf(ls, k))
           /\ \A i, j \in 1..Len(titled) :
                  i < j => FirstLineOf(ls, titled[i]) < FirstLineOf(ls, titled[j])

\* a line `# パートナー名`
IsPartnerLine(l) ==
    Len(l) >= 1 /\ l[1] = "#" /\ Strip(Tail(l)) = <<PartnerHeading>>

ClaimedPartnerName(s) ==
    LET ls == PhysicalLines(s)
        hs == {i \in 1..Len(ls) : IsPartnerLine(ls[i])}
    IN IF hs = {} THEN None
       ELSE LET h == CHOOSE i \in hs : \A j \in hs : i <= j
                after == StripNonBlank(Slice(ls, h + 1, Len(ls)))
            IN IF after = <<>> THEN None ELSE Some(after[1])

\* C6: the partner name is the trimmed first non-blank line after the first
\* line `# パートナー名`; it is absent exactly when there is no such line or only
\* blank lines follow it.
C6_PartnerNameByLine == pc = "done" => ret.partner_name = ClaimedPartnerName(text)

(***************************************************************************)
(* Specification of md_table_to_records over bounded section bodies        *)
(***************************************************************************)
MaxTableLines == 4

TableLineSet ==
    { <<>>, <<"a">>,
      <<"|", "a", "|", "b">>, <<"|", "a", "|", "a", "|">>,
      <<"|", "-", "|", "-", "|">>, <<"|", "-", "|">>,
      <<"|", "b">>, <<"|", "a", "|", "b", "|", "c">> }

InitTable ==
    /\ pc = "call"
    /\ text \in TextsOf(TableLineSet, MaxTableLines)
    /\ compact = FALSE
    /\ ret = Idle
    /\ NoBatch

CallTable ==
    /\ pc = "call"
    /\ ret' = md_table_to_records(text)
    /\ pc' = "done"
    /\ UNCHANGED <<text, compact>>
    /\ UNCHANGED batchVars

NextTable == CallTable

SpecTable == InitTable /\ [][NextTable]_vars

\* a line made only of -, :, spaces, tabs and pipes
IsRuleLine(l) == \A i \in 1..Len(l) : l[i] \in TableRuleChars

\* the adjacent pairs C7 speaks of, as the index of their first line
RulePairs(ls) == {i \in 1..(Len(ls) - 1) : HasPipe(ls[i]) /\ IsRuleLine(ls[i + 1])}

\* C7: the result is absent exactly when the trimmed non-blank lines have no
\* adjacent pair of a line with a pipe and a line made only of -, :, blanks
\* and pipes; when there is such a pair (of any number of columns, one
\* included) the result is the records built from the first one.
C7_AbsentIffNoRulePair ==
    pc = "done" =>
        LET ls == NonBlankLines(text)
            ps == RulePairs(ls)
        IN /\ ~ret.some <=> ps = {}
           /\ ps # {} =>
                  LET h == CHOOSE i \in ps : \A j \in ps : i <= j
                  IN ret.v = DataRecords(split_row(ls[h]), Slice(ls, h + 2, Len(ls)))

\* the lines after the separator that hold a pipe, in order
PipeRows(ls, h) == SelectSeq(Slice(ls, h + 2, Len(ls)), HasPipe)

\* the cell of column j of a row: empty past the row's last cell
CellAt(cells, j) == IF j <= Len(cells) THEN cells[j] ELSE <<>>

RecordsShape(ls, h) ==
    /\ Len(ret.v) = Len(PipeRows(ls, h))
    /\ \A i \in 1..Len(ret.v) :
           /\ Range(ret.v[i].keys) = Range(split_row(ls[h]))
           /\ Cardinality(Range(ret.v[i].keys)) = Len(ret.v[i].keys)

\* C8 as stated: one record for each line after the separator that holds a
\* pipe, in order; every record has the header's column names as its keys and
\* maps every header column to the row's cell at that position, "" when the
\* row is shorter, the cells past the header being dropped.
C8_EveryColumnByPosition ==
    pc = "done" /\ ret.some =>
        LET ls == NonBlankLines(text)
            h == HeaderIdx(ls)
            hdr == split_row(ls[h])
        IN /\ RecordsShape(ls, h)
           /\ \A i \in 1..Len(ret.v) : \A j \in 1..Len(hdr) :
                  DictGet(ret.v[i], hdr[j], None)
                      = CellAt(split_row(PipeRows(ls, h)[i]), j)

\* C8 amended: as C8, but of the columns that share one name the record
\* holds the cell of the last.
C8_LastColumnOfANameByPosition ==
    pc = "done" /\ ret.some =>
        LET ls == NonBlankLines(text)
            h == HeaderIdx(ls)
            hdr == split_row(ls[h])
        IN /\ RecordsShape(ls, h)
           /\ \A i \in 1..Len(ret.v) : \A j \in 1..Len(hdr) :
                  (\A k \in (j + 1)..Len(hdr) : hdr[k] # hdr[j]) =>
                      DictGet(ret.v[i], hdr[j], None)
                          = CellAt(split_row(PipeRows(ls, h)[i]), j)

\* a table with a row shorter than the header, a row longer than it and a
\* line without a pipe among the rows
C8_Witness ==
    /\ pc = "done" /\ ret.some
    /\ LET ls == NonBlankLines(text)
           h == HeaderIdx(ls)
           hdr == split_row(ls[h])
           rows == PipeRows(ls, h)
       IN /\ Len(hdr) = 2
          /\ Len(rows) < Len(ls) - h - 1
          /\ \E i \in 1..Len(rows) : Len(split_row(rows[i])) < Len(hdr)
          /\ Len(ret.v) = Len(rows)

(***************************************************************************)
(* Specification of extract_items over bounded section bodies              *)
(***************************************************************************)
MaxItemLines == 3

ItemLineSet ==
    { <<>>, <<" ">>, <<"a">>, <<"a", " ", "b">>,
      <<"*", " ", "a">>, <<"-", "a", ",", "b">>, <<"*">>,
      <<"a", ",", " ", "b">>, <<"a", ",", ",", "a">>, <<",">> }

InitItems ==
    /\ pc = "call"
    /\ text \in TextsOf(ItemLineSet, MaxItemLines)
    /\ compact = FALSE
    /\ ret = Idle
    /\ NoBatch

CallItems ==
    /\ pc = "call"
    /\ ret' = extract_items(text)
    /\ pc' = "done"
    /\ UNCHANGED <<text, compact>>
    /\ UNCHANGED batchVars

NextItems == CallItems

SpecItems == InitItems /\ [][NextItems]_vars

\* a line without its leading *, - and space characters
AfterBullets(l) ==
    LET rest == {i \in 1..Len(l) : l[i] \notin {"*", "-", " "}}
    IN IF rest = {} THEN <<>>
       ELSE Slice(l, CHOOSE i \in rest : \A j \in rest : i <= j, Len(l))

\* the pieces of a line between its commas, trimmed, the empty ones left out
RECURSIVE PiecesFrom(_, _)
PiecesFrom(l, from) ==
    IF from > Len(l) + 1 THEN <<>>
    ELSE LET stop == IF \E i \in from..Len(l) : l[i] = ","
                     THEN CHOOSE i \in from..Len(l) :
                              l[i] = "," /\ \A j \in from..(i - 1) : l[j] # ","
                     ELSE Len(l) + 1
             piece == Strip(Slice(l, from, stop - 1))
         IN (IF piece = <<>> THEN <<>> ELSE <<piece>>) \o PiecesFrom(l, stop + 1)

\* the items C9 gives a trimmed non-blank line
ClaimedLineItems(l) ==
    IF l[1] = "*" \/ l[1] = "-" THEN <<Strip(AfterBullets(l))>>
    ELSE IF "," \in Range(l) THEN PiecesFrom(l, 1)
    ELSE <<l>>

RECURSIVE ClaimedItems(_)
ClaimedItems(ls) ==
    IF ls = <<>> THEN <<>> ELSE ClaimedLineItems(ls[1]) \o ClaimedItems(Tail(ls))

\* C9: the items are, line by line in order, those of each trimmed non-blank
\* line: a line starting with * or - gives one item, the line without its
\* leading *, - and spaces, trimmed and not split on commas; another line with
\* a comma gives its comma-separated pieces, trimmed, without the empty ones;
\* any other line gives itself; duplicates stay; an empty body gives none.
C9_ItemsLineByLine ==
    pc = "done" => ret = ClaimedItems(NonBlankLines(text))

\* a body with a bullet line holding a comma, a comma line and a plain line
C9_Witness ==
    /\ pc = "done"
    /\ text = <<"-", "a", ",", "b", NL, "a", ",", ",", "a", NL, "a", " ", "b">>
    /\ ret = << <<"a", ",", "b">>, <<"a">>, <<"a">>, <<"a", " ", "b">> >>

(***************************************************************************)
(* Specification of render_value over bounded section bodies               *)
(***************************************************************************)
MaxRenderLines == 4

RenderLineSet ==
    { <<>>, <<"a">>, <<"*", " ", "a">>,
      <<"|", "a", "|", "b">>, <<"|", "-", "|", "-">>, <<"|", "b">>,
      <<"graph", " ", "a">>, <<FenceMermaid>> }

InitRender ==
    /\ pc = "call"
    /\ text \in TextsOf(RenderLineSet, MaxRenderLines)
    /\ compact \in BOOLEAN
    /\ ret = Idle
    /\ NoBatch

\* html_ok, pandas_ok: whether the Mermaid and the DataFrame display raise
CallRender ==
    /\ pc = "call"
    /\ \E html_ok \in BOOLEAN : \E pandas_ok \in BOOLEAN :
           ret' = render_value(text, compact, html_ok, pandas_ok)
    /\ pc' = "done"
    /\ UNCHANGED <<text, compact>>
    /\ UNCHANGED batchVars

NextRender == CallRender

SpecRender == InitRender /\ [][NextRender]_vars

\* the kind of a body, by the precedence of C10
ClassifiedKind(body) ==
    IF is_mermaid(body) THEN "DiagramSource"
    ELSE IF is_markdown_table(body) THEN "Table"
    ELSE IF AllBullets(KeepNonBlank(SplitLines(body))) THEN "BulletList"
    ELSE "FreeText"

\* the kind whose branch has drawn; the "-" of an empty body is free text
BranchKind(branch) ==
    CASE branch = "mermaid" -> "DiagramSource"
      [] branch = "table" -> "Table"
      [] branch = "bullets" -> "BulletList"
      [] branch = "text" -> "FreeText"
      [] branch = "empty" -> "FreeText"

\* C10 as stated: render_value takes the branch of the kind of the body,
\* diagram before table before bullet list before free text.
C10_BranchOfTheKind ==
    pc = "done" => BranchKind(ret.branch) = ClassifiedKind(text)

HasRecords(body) ==
    md_table_to_records(body).some /\ md_table_to_records(body).v # <<>>

\* C10 amended: as C10, but a body of kind Table whose records are absent or
\* empty is drawn by the free-text branch.
C10_BranchOfTheKindOrFallback ==
    pc = "done" =>
        BranchKind(ret.branch) =
            (IF ClassifiedKind(text) = "Table" /\ ~HasRecords(text)
             THEN "FreeText" ELSE ClassifiedKind(text))

\* a body that is a diagram and also a table with records, drawn as a diagram
C10_Witness ==
    /\ pc = "done"
    /\ is_mermaid(text) /\ is_markdown_table(text) /\ HasRecords(text)
    /\ ret.branch = "mermaid"

====
